---- MODULE Spec2Model ----
(***************************************************************************)
(* stegohide: a message is hidden in the low 2 bits of the colour bytes of *)
(* a PNG, behind a frame "BHTM" + big-endian u32 length (src/src/main.rs). *)
(*                                                                         *)
(* The state is one PNG file (its pixel buffer after normalisation to 8    *)
(* bits per channel, and its colour type), what the last command did, and  *)
(* the messages encoded so far.  `encode` is run with its default output   *)
(* path, the input file itself (main.rs:44-47), so a later command reads   *)
(* what an earlier one wrote.  A byte is a number in 0..255, a string is   *)
(* the sequence of its code points.                                        *)
(***************************************************************************)
EXTENDS Integers, Sequences, FiniteSets

VARIABLES
    pixels,     \* the file: the pixel buffer reader.next_frame yields
    colorType,  \* the file: info.color_type, "Rgb" or "Rgba"
    pc,         \* the last command: "start", "encoded", "decoded"
    history,    \* the messages encoded so far, oldest first
    source,     \* encode: the pixel buffer it read
    frame,      \* encode: the symbols inject_message chained (full_message)
    injected,   \* encode: what inject_message returned
    outcome     \* decode: what it printed, or that it panicked

vars == <<pixels, colorType, pc, history, source, frame, injected, outcome>>

-----------------------------------------------------------------------------
(* Bounds of the model.                                                    *)

MaxPixels == 24     \* images of 0..MaxPixels pixels
MaxMsgLen == 2      \* messages of 0..MaxMsgLen characters
MaxEncodes == 2     \* encodes in one run

-----------------------------------------------------------------------------
(* u8 arithmetic.                                                          *)

RECURSIVE BitAnd(_, _)
BitAnd(a, b) ==
    IF a = 0 \/ b = 0 THEN 0
    ELSE (a % 2) * (b % 2) + 2 * BitAnd(a \div 2, b \div 2)

RECURSIVE BitOr(_, _)
BitOr(a, b) ==
    IF a = 0 THEN b
    ELSE IF b = 0 THEN a
    ELSE (IF a % 2 = 1 \/ b % 2 = 1 THEN 1 ELSE 0)
         + 2 * BitOr(a \div 2, b \div 2)

\* u8::shl: bits shifted past bit 7 are lost
Shl(x, k) == (x * 2^k) % 256

\* u8::rotate_right: the k low bits come back in at the top
rotate_right(e, k) == ((e \div 2^k) + (e % 2^k) * 2^(8 - k)) % 256

-----------------------------------------------------------------------------
(* Strings.                                                                *)

\* str::as_bytes: the UTF-8 encoding (code points below 0x800)
RECURSIVE as_bytes(_)
as_bytes(s) ==
    IF s = <<>> THEN <<>>
    ELSE LET c == Head(s) IN
         (IF c < 128 THEN <<c>>
          ELSE <<192 + (c \div 64), 128 + (c % 64)>>) \o as_bytes(Tail(s))

\* `*e as char`, collected into a String: each byte is one code point
as_chars(bytes) == [i \in 1..Len(bytes) |-> bytes[i]]

\* b"BHTM"
Magic == <<66, 72, 84, 77>>

\* (n as u32).to_be_bytes(): the 32 low bits of n, most significant byte first
to_be_bytes(n) ==
    <<(n \div 2^24) % 256, (n \div 2^16) % 256, (n \div 2^8) % 256, n % 256>>

\* u32::from_be_bytes
from_be_bytes(b) == b[1] * 2^24 + b[2] * 2^16 + b[3] * 2^8 + b[4]

\* Iterator::take / Iterator::skip on a slice
Take(s, n) == SubSeq(s, 1, IF n < Len(s) THEN n ELSE Len(s))
Skip(s, n) == IF n >= Len(s) THEN <<>> ELSE SubSeq(s, n + 1, Len(s))

\* slice::chunks(n) and itertools chunks(n): the last chunk may be shorter
Chunks(s, n) ==
    [k \in 1..((Len(s) + n - 1) \div n) |->
        SubSeq(s, (k - 1) * n + 1, IF k * n < Len(s) THEN k * n ELSE Len(s))]

\* Iterator::flatten / flat_map: the elements of ss[lo..hi], concatenated
RECURSIVE FlattenRange(_, _, _)
FlattenRange(ss, lo, hi) ==
    IF lo > hi THEN <<>>
    ELSE IF lo = hi THEN ss[lo]
    ELSE LET mid == (lo + hi) \div 2 IN
         FlattenRange(ss, lo, mid) \o FlattenRange(ss, mid + 1, hi)

Flatten(ss) == FlattenRange(ss, 1, Len(ss))

\* itertools interleave: alternate, starting with a; once one side is
\* exhausted the other side's remaining elements follow
Interleave(a, b) ==
    LET m == IF Len(a) < Len(b) THEN Len(a) ELSE Len(b)
        rest == IF Len(a) > Len(b) THEN a ELSE b
    IN [p \in 1..(Len(a) + Len(b)) |->
           IF p > 2 * m THEN rest[p - m]
           ELSE IF p % 2 = 1 THEN a[(p + 1) \div 2]
           ELSE b[p \div 2]]

-----------------------------------------------------------------------------
(* The codec.                                                              *)

\* a bug: only three bytes of the marker are compared
check_magic_bytes_three(bytes) == as_chars(Take(bytes, 3)) = <<66, 72, 84>>

check_magic_bytes(bytes) == as_chars(Take(bytes, 4)) = <<66, 72, 84, 77>>

\* &bytes[4..8] panics on fewer than 8 bytes
get_length_panics(bytes) == Len(bytes) < 8
\* a bug: the length is read little-endian
get_length_le(bytes) ==
    bytes[5] + bytes[6] * 2^8 + bytes[7] * 2^16 + bytes[8] * 2^24

get_length(bytes) == from_be_bytes(SubSeq(bytes, 5, 8))

extract_chunk(chunk) ==
    IF Len(chunk) < 4 THEN <<>>      \* a `?` on a missing byte: nothing pushed
    ELSE LET v1 == Shl(BitAnd(chunk[1], 3), 6)
             v2 == Shl(BitAnd(chunk[2], 3), 4)
             v3 == Shl(BitAnd(chunk[3], 3), 2)
             v4 == Shl(BitAnd(chunk[4], 3), 0)
         IN <<BitOr(BitOr(BitOr(v1, v2), v3), v4)>>

\* a bug: the loop stops one chunk early
extract_bytes_short(rgb_bytes) ==
    LET chunks == Chunks(rgb_bytes, 4) IN
    Flatten([k \in 1..(Len(chunks) - 1) |-> extract_chunk(chunks[k])])

extract_bytes(rgb_bytes) ==
    LET chunks == Chunks(rgb_bytes, 4) IN
    Flatten([k \in 1..Len(chunks) |-> extract_chunk(chunks[k])])

\* enumerate().filter(..): the elements of s[lo..hi] at the 0-based indices
\* i with (i % 4 == r) if eq, with (i % 4 != r) if not
RECURSIVE FilterRange(_, _, _, _, _)
FilterRange(s, lo, hi, r, eq) ==
    IF lo > hi THEN <<>>
    ELSE IF lo = hi
         THEN (IF ((lo - 1) % 4 = r) = eq THEN <<s[lo]>> ELSE <<>>)
    ELSE LET mid == (lo + hi) \div 2 IN
         FilterRange(s, lo, mid, r, eq) \o FilterRange(s, mid + 1, hi, r, eq)

FilterIndex(s, r, eq) == FilterRange(s, 1, Len(s), r, eq)

\* a bug: alpha is taken to be the first byte of a pixel, not the last
get_bytes_argb(file, color_type) ==
    IF color_type = "Rgba"
    THEN [bytes |-> FilterIndex(file, 0, FALSE),
          alpha |-> <<FilterIndex(file, 0, TRUE)>>]
    ELSE [bytes |-> file, alpha |-> <<>>]

\* Image { bytes, alpha }: alpha is <<a>> for Some(a), <<>> for None
get_bytes(file, color_type) ==
    IF color_type = "Rgba"
    THEN [bytes |-> FilterIndex(file, 3, FALSE),
          alpha |-> <<FilterIndex(file, 3, TRUE)>>]
    ELSE [bytes |-> file, alpha |-> <<>>]

\* a bug: the pairs are emitted least significant first
split_bytes_lsb(bytes) ==
    Flatten([k \in 1..Len(bytes) |->
        <<BitAnd(rotate_right(bytes[k], 0), 3),
          BitAnd(rotate_right(bytes[k], 2), 3),
          BitAnd(rotate_right(bytes[k], 4), 3),
          BitAnd(rotate_right(bytes[k], 6), 3)>>])

split_bytes(bytes) ==
    Flatten([k \in 1..Len(bytes) |->
        <<BitAnd(rotate_right(bytes[k], 6), 3),
          BitAnd(rotate_right(bytes[k], 4), 3),
          BitAnd(rotate_right(bytes[k], 2), 3),
          BitAnd(rotate_right(bytes[k], 0), 3)>>])

\* a bug: the alpha byte is put before its pixel's colour bytes
add_alpha_first(bytes, alpha) ==
    IF alpha # <<>>
    THEN Flatten(Interleave(Chunks(alpha[1], 1), Chunks(bytes, 3)))
    ELSE bytes

add_alpha(bytes, alpha) ==
    IF alpha # <<>>
    THEN Flatten(Interleave(Chunks(bytes, 3), Chunks(alpha[1], 1)))
    ELSE bytes

full_message(message) ==
    LET lenght == to_be_bytes(Len(as_bytes(message))) IN
    split_bytes(Magic) \o split_bytes(lenght) \o split_bytes(as_bytes(message))

\* a bug: the low bits are cleared past the end of the frame too
inject_message_clear(bytes, message) ==
    LET fm == full_message(message) IN
    [i \in 1..Len(bytes) |->
        IF i <= Len(fm) THEN BitOr(BitAnd(bytes[i], 252), fm[i])
        ELSE BitAnd(bytes[i], 252)]

\* a bug: the symbol is or-ed in without clearing the old low bits
inject_message_or(bytes, message) ==
    LET fm == full_message(message) IN
    [i \in 1..Len(bytes) |->
        IF i <= Len(fm) THEN BitOr(bytes[i], fm[i])
        ELSE bytes[i]]

inject_message(bytes, message) ==
    LET fm == full_message(message) IN
    [i \in 1..Len(bytes) |->
        IF i <= Len(fm) THEN BitOr(BitAnd(bytes[i], 252), fm[i])
        ELSE bytes[i]]

\* what decode prints: the message, "no message", or a panic in get_length
decode(file, color_type) ==
    LET image == get_bytes(file, color_type)
        extracted_bytes == extract_bytes(image.bytes)
    IN IF check_magic_bytes(extracted_bytes)
       THEN IF get_length_panics(extracted_bytes)
            THEN [kind |-> "Panic", text |-> <<>>]
            ELSE [kind |-> "Message",
                  text |-> as_chars(Take(Skip(extracted_bytes, 8),
                                         get_length(extracted_bytes)))]
       ELSE [kind |-> "NoMessage", text |-> <<>>]

-----------------------------------------------------------------------------
(* The inputs.                                                             *)

\* Two texts, "hihi..." and "\u{e9}h\u{e9}h...", and their prefixes
Text(t, n) ==
    [i \in 1..n |-> IF t = 1 THEN (IF i % 2 = 1 THEN 104 ELSE 105)
                    ELSE (IF i % 2 = 1 THEN 233 ELSE 104)]
Messages == {Text(t, n) : t \in {1, 2}, n \in 0..MaxMsgLen}

\* What an image may already carry in its low bits: nothing, or a header
\* with a right or wrong magic marker and a length field of any value
MagicVariants == {<<66, 72, 84, 77>>, <<66, 72, 84, 109>>, <<65, 72, 84, 77>>}
LengthFields == {<<0, 0, 0, 1>>, <<0, 0, 0, 3>>, <<1, 0, 0, 0>>}
Carried == {<<>>} \cup {m \o l \o <<104, 195, 33>> :
                           m \in MagicVariants, l \in LengthFields}

\* channel bytes per pixel
Channels(color_type) == IF color_type = "Rgba" THEN 4 ELSE 3

\* The pixel buffer of an n-pixel image: a gradient, with the bytes c in the
\* low 2 bits of its colour bytes (as far as they fit)
ImagePixels(n, color_type, c) ==
    [k \in 1..(n * Channels(color_type)) |->
        LET i == k - 1
            v == (23 + 37 * i) % 256
            j == IF color_type = "Rgba" THEN i - (i \div 4) ELSE i
        IN IF (color_type = "Rgba" /\ i % 4 = 3) \/ j >= 4 * Len(c) THEN v
           ELSE v - (v % 4) + ((c[(j \div 4) + 1] \div 4^(3 - (j % 4))) % 4)]

NoOutcome == [kind |-> "none", text |-> <<>>]

-----------------------------------------------------------------------------
(* The commands.                                                           *)

Init ==
    /\ colorType \in {"Rgb", "Rgba"}
    /\ \E n \in 0..MaxPixels, c \in Carried :
           pixels = ImagePixels(n, colorType, c)
    /\ pc = "start"
    /\ history = <<>>
    /\ source = <<>>
    /\ frame = <<>>
    /\ injected = <<>>
    /\ outcome = NoOutcome

\* encode <file> <message>, output = file
Encode(message) ==
    /\ Len(history) < MaxEncodes
    /\ LET image == get_bytes(pixels, colorType) IN
       /\ source' = pixels
       /\ frame' = full_message(message)
       /\ injected' = inject_message(image.bytes, message)
       /\ pixels' = add_alpha(injected', image.alpha)
    /\ history' = Append(history, message)
    /\ pc' = "encoded"
    /\ outcome' = NoOutcome
    /\ UNCHANGED colorType

\* decode <file>
Decode ==
    /\ outcome' = decode(pixels, colorType)
    /\ pc' = "decoded"
    /\ UNCHANGED <<pixels, colorType, history, source, frame, injected>>

Next ==
    \/ \E message \in Messages : Encode(message)
    \/ Decode

Spec == Init /\ [][Next]_vars

-----------------------------------------------------------------------------
(* What the properties below speak of.                                     *)

Last(s) == s[Len(s)]

\* the colour stream the last encode injected into
SourceColor == get_bytes(source, colorType).bytes

\* the bytes a decode of the file extracts
Extracted == extract_bytes(get_bytes(pixels, colorType).bytes)

IsAscii(m) == \A i \in 1..Len(m) : m[i] < 128

\* len(m), in bytes
ByteLen(m) == Len(as_bytes(m))

\* the first 4 of the bytes e are exactly 'B','H','T','M'
StartsWithMagic(e) ==
    Len(e) >= 4 /\ e[1] = 66 /\ e[2] = 72 /\ e[3] = 84 /\ e[4] = 77

\* the 16 symbols of a length field, read as one base-4 number
RECURSIVE Base4(_)
Base4(syms) ==
    IF syms = <<>> THEN 0 ELSE 4 * Base4(SubSeq(syms, 1, Len(syms) - 1)) + Last(syms)

\* the 4 symbols of byte b, most significant pair first
Pairs(b) == <<(b \div 64) % 4, (b \div 16) % 4, (b \div 4) % 4, b % 4>>

Found(m) == [kind |-> "Message", text |-> m]

-----------------------------------------------------------------------------
(* C1: frame round trip.  When an ASCII message m with len(m)*4 + 64 <=    *)
(* length(c) was injected into the colour stream c, a decode of the result *)
(* finds the marker and prints exactly m.                                  *)
FrameRoundTrip ==
    (/\ pc = "decoded"
     /\ history # <<>>
     /\ IsAscii(Last(history))
     /\ Len(Last(history)) * 4 + 64 <= Len(SourceColor))
    => outcome = Found(Last(history))

FrameRoundTripWitness ==
    /\ pc = "decoded"
    /\ history = <<<<104, 105>>>>
    /\ Len(SourceColor) >= 72
    /\ outcome = Found(<<104, 105>>)

(* C2: encoding into an RGBA pixel buffer leaves every alpha byte (index i *)
(* with i mod 4 = 3) where it was and as it was, whatever the length of    *)
(* the message, over-capacity messages included.                           *)
AlphaUntouched ==
    (history # <<>> /\ colorType = "Rgba")
    => /\ Len(pixels) = Len(source)
       /\ \A k \in 1..Len(pixels) : (k - 1) % 4 = 3 => pixels[k] = source[k]

AlphaUntouchedWitness ==
    /\ pc = "encoded"
    /\ colorType = "Rgba"
    /\ Len(pixels) >= 8
    /\ pixels # source
    /\ 4 * (8 + ByteLen(Last(history))) > Len(SourceColor)

(* C3: magic mismatch.  A decode of a colour stream, of any length, whose  *)
(* first 4 extracted bytes are not exactly 'B','H','T','M' reports "no     *)
(* message": never a message, never a failure, whatever else it holds.     *)
MagicMismatch ==
    (pc = "decoded" /\ ~StartsWithMagic(Extracted))
    => outcome = [kind |-> "NoMessage", text |-> <<>>]

\* three of the four marker bytes are there, and a length field after them
MagicMismatchWitness ==
    /\ pc = "decoded"
    /\ Len(Extracted) >= 8
    /\ SubSeq(Extracted, 1, 3) = <<66, 72, 84>>
    /\ Extracted[4] # 77
    /\ outcome.kind = "NoMessage"

(* C4: exact capacity.  When floor(length(c)/4) >= 8 and the ASCII message *)
(* m has exactly floor(length(c)/4) - 8 bytes, the encoded stream holds    *)
(* the whole frame and a decode of it prints exactly m.                    *)
ExactCapacity ==
    (/\ history # <<>>
     /\ Len(SourceColor) \div 4 >= 8
     /\ IsAscii(Last(history))
     /\ ByteLen(Last(history)) = (Len(SourceColor) \div 4) - 8)
    => /\ extract_bytes(injected)
            = Magic \o <<0, 0, 0, Len(Last(history))>> \o Last(history)
       /\ pc = "decoded" => outcome = Found(Last(history))

ExactCapacityWitness ==
    /\ pc = "decoded"
    /\ Len(SourceColor) \div 4 >= 8
    /\ Last(history) = <<104, 105>>
    /\ ByteLen(Last(history)) = (Len(SourceColor) \div 4) - 8
    /\ outcome = Found(<<104, 105>>)

(* C5: over-capacity rejection.  An encode of a message one byte over      *)
(* capacity (len(m) = floor(length(c)/4) - 8 + 1) is rejected with an      *)
(* error and writes no pixel output.                                       *)
OverCapacityRejected ==
    (/\ pc = "encoded"
     /\ ByteLen(Last(history)) = (Len(SourceColor) \div 4) - 8 + 1)
    => /\ outcome.kind = "CapacityOverrun"
       /\ pixels = source

(* C6: decode truncation.  When the first 4 extracted bytes are the marker *)
(* and the claimed length L exceeds what is there (fewer than 8+L          *)
(* extracted bytes, fewer than 8 in all included), decode does not fail    *)
(* and prints exactly the extracted bytes from offset 8 on.                *)
DecodeTruncates ==
    (/\ pc = "decoded"
     /\ StartsWithMagic(Extracted)
     /\ \/ Len(Extracted) < 8
        \/ Len(Extracted) < 8 + from_be_bytes(SubSeq(Extracted, 5, 8)))
    => outcome = Found(IF Len(Extracted) <= 8 THEN <<>>
                       ELSE SubSeq(Extracted, 9, Len(Extracted)))

(* C7: frame layout.  The symbols inject_message chains are the 16 symbols *)
(* of 0x42,0x48,0x54,0x4D (most significant pair first), then 16 symbols   *)
(* that spell len(m) in bytes as a big-endian u32, then the 4*len(m)       *)
(* symbols of m's bytes, and nothing after them.                           *)
FrameLayout ==
    history # <<>> =>
        LET bytes == as_bytes(Last(history)) IN
        /\ Len(frame) = 32 + 4 * Len(bytes)
        /\ SubSeq(frame, 1, 16) = <<1, 0, 0, 2, 1, 0, 2, 0, 1, 1, 1, 0, 1, 0, 3, 1>>
        /\ Base4(SubSeq(frame, 17, 32)) = Len(bytes)
        /\ \A k \in 1..Len(bytes) :
               SubSeq(frame, 32 + 4 * k - 3, 32 + 4 * k) = Pairs(bytes[k])

\* "hi": the length field is 0x00000002
FrameLayoutWitness ==
    /\ pc = "encoded"
    /\ Last(history) = <<104, 105>>
    /\ SubSeq(frame, 17, 32) = <<0, 0, 0, 0, 0, 0, 0, 0, 0, 0, 0, 0, 0, 0, 0, 2>>
    /\ Len(frame) = 40

(* C8: injection.  inject_message(c, m) is as long as c; below             *)
(* min(length(c), 4*(8+len(m))) a byte keeps its high 6 bits and takes the *)
(* frame's symbol as its low 2 bits; from 4*(8+len(m)) on it is c's byte.  *)
InjectionEffect ==
    history # <<>> =>
        LET c == SourceColor
            n == 4 * (8 + ByteLen(Last(history)))
        IN /\ Len(injected) = Len(c)
           /\ \A k \in 1..Len(c) :
                  IF k <= n
                  THEN /\ injected[k] \div 4 = c[k] \div 4
                       /\ injected[k] % 4 = frame[k]
                  ELSE injected[k] = c[k]

\* bytes were rewritten, and bytes past the frame were there to pass through
InjectionEffectWitness ==
    /\ pc = "encoded"
    /\ Len(injected) > Len(frame)
    /\ injected # SourceColor
    /\ ByteLen(Last(history)) > 0

(* C9: channel separation.  For an RGBA pixel buffer p (length a multiple  *)
(* of 4) get_bytes puts the bytes at i mod 4 /= 3 into the colour stream   *)
(* and those at i mod 4 = 3 into the alpha stream, both in order, and      *)
(* add_alpha of the two is p again; without an alpha stream add_alpha      *)
(* returns the colour stream as it is.                                     *)
ChannelRoundTrip ==
    LET image == get_bytes(pixels, colorType)
        n == Len(pixels) \div 4
    IN /\ add_alpha(image.bytes, <<>>) = image.bytes
       /\ colorType = "Rgba" =>
            /\ Len(image.bytes) = 3 * n
            /\ \A k \in 1..(3 * n) : image.bytes[k] = pixels[k + ((k - 1) \div 3)]
            /\ image.alpha = <<[k \in 1..n |-> pixels[4 * k]]>>
            /\ add_alpha(image.bytes, image.alpha) = pixels

ChannelRoundTripWitness ==
    /\ colorType = "Rgba"
    /\ Len(pixels) >= 8
    /\ pc = "encoded"
    /\ get_bytes(pixels, colorType).alpha[1] # <<>>
    /\ pixels[4] # pixels[3]

(* C10: last write wins.  After any sequence of encodes into the same file *)
(* of which the last message fits (4*(8+len(mn)) <= length(c)), decode     *)
(* prints exactly mn, whatever was encoded before; and encoding a message  *)
(* a second time leaves the colour stream as the first encode left it.     *)
LastWriteWinsAnyText ==
    /\ (/\ pc = "decoded"
        /\ history # <<>>
        /\ 4 * (8 + ByteLen(Last(history))) <= Len(SourceColor))
       => outcome = Found(Last(history))
    /\ (Len(history) >= 2 /\ Last(history) = history[Len(history) - 1])
       => injected = SourceColor

(* C10, amended: the same, for a last message that is ASCII.               *)
LastWriteWins ==
    /\ (/\ pc = "decoded"
        /\ history # <<>>
        /\ IsAscii(Last(history))
        /\ 4 * (8 + ByteLen(Last(history))) <= Len(SourceColor))
       => outcome.kind = "Message" /\ outcome.text = Last(history)
    /\ (Len(history) >= 2 /\ Last(history) = history[Len(history) - 1])
       => injected = SourceColor

\* "h" over a longer message that did not fit
LastWriteWinsWitness ==
    /\ pc = "decoded"
    /\ Len(history) = 2
    /\ history[2] = <<104>>
    /\ ByteLen(history[1]) > ByteLen(history[2])
    /\ 4 * (8 + ByteLen(history[1])) > Len(SourceColor)
    /\ 4 * (8 + ByteLen(history[2])) <= Len(SourceColor)
    /\ outcome = Found(<<104>>)

====
